---- MODULE Spec2Model ----
(***************************************************************************)
(* A model of app.py: the Streamlit chat page (main), the cached Bedrock   *)
(* client initializer (init_bedrock_client), the retrying invoker          *)
(* (call_bedrock_api) and the local responder (local_chatbot_response).    *)
(*                                                                         *)
(* One script run of main() is triggered by exactly one widget event: the  *)
(* checkbox being toggled, the reset button being clicked, or a prompt     *)
(* being submitted to the chat input.  A run that handles a prompt is      *)
(* followed through its program positions (pc): "call" is the retry loop   *)
(* of call_bedrock_api, "render" is the point of main() where              *)
(* full_response has been computed and is about to be typed out and        *)
(* appended, "idle" is the page waiting for the next widget event.         *)
(*                                                                         *)
(* Texts are sequences of tokens: a prompt is the sequence of its          *)
(* syllables (one code point each), a reply is the sequence of the fixed   *)
(* and the variable parts it is concatenated from.                         *)
(***************************************************************************)
EXTENDS Integers, Sequences, FiniteSets, TLC

VARIABLES
    messages,        \* st.session_state.messages
    use_bedrock,     \* the sidebar checkbox
    cache,           \* the st.cache_resource entry of init_bedrock_client
    constructions,   \* how many times boto3.client(...) has been attempted
    secrets_ok,      \* whether st.secrets / boto3 would let a construction succeed now
    pc,              \* position of the running script
    prompt,          \* the submitted input of the current run
    bedrock_client,  \* main's local bedrock_client
    retry_count,     \* the loop variable of call_bedrock_api
    sleeps,          \* the time.sleep durations of the current call_bedrock_api call, in order
    outcomes,        \* what client.invoke_model did on each attempt of the current call
    requests,        \* the request sent on each attempt of the current call
    full_response,   \* main's local full_response
    respond_arg,     \* the argument of local_chatbot_response when it is called on its own
    calls            \* the calls of local_chatbot_response on respond_arg: clock reading and reply

vars == <<messages, use_bedrock, cache, constructions, secrets_ok, pc, prompt,
          bedrock_client, retry_count, sleeps, outcomes, requests, full_response,
          respond_arg, calls>>

----------------------------------------------------------------------------
(* Bounds of the model *)

MaxMessages == 4        \* a prompt is accepted while fewer messages than this are stored
MaxConstructions == 2   \* cap on the construction counter
MaxInputLen == 4        \* longest argument given to local_chatbot_response on its own
MaxCalls == 2           \* calls of local_chatbot_response made on one argument

----------------------------------------------------------------------------
(* Values *)

\* a Python value that is either a str (val = its tokens) or None
Str(s) == [type |-> "str", val |-> s]
PyNone == [type |-> "NoneType", val |-> <<>>]
Unset == [type |-> "unset", val |-> <<>>]

\* the client handle: None, or the object made by the n-th construction
None == [valid |-> FALSE, id |-> 0]
Handle(n) == [valid |-> TRUE, id |-> n]

EmptyCache == [set |-> FALSE, value |-> None]
Cached(v) == [set |-> TRUE, value |-> v]

\* the prompt stored under the wrong role
UserMessage_as_assistant(p) == [role |-> "assistant", content |-> p]

UserMessage(p) == [role |-> "user", content |-> p]
AssistantMessage(t) == [role |-> "assistant", content |-> t]

\* the prompts a user submits in this model
Prompts == { <<"nal", "ssi">>, <<"si", "gan", "i", "reum">>, <<"x">> }

\* the clock readings time.strftime('%H:%M') can give
Times == { "09:00", "09:01" }

----------------------------------------------------------------------------
(* local_chatbot_response *)

\* `keyword in user_input`: the keyword occurs as a contiguous run of code points
Contains(user_input, keyword) ==
    \E i \in 1..(Len(user_input) - Len(keyword) + 1) :
        SubSeq(user_input, i, i + Len(keyword) - 1) = keyword

\* a table whose weather reply quotes the clock as well
responses_clock_everywhere(now) ==
    << [keyword |-> <<"an", "nyeong">>, response |-> <<"Hello! How can I help you?">>],
       [keyword |-> <<"i", "reum">>,    response |-> <<"I am an AI chatbot.">>],
       [keyword |-> <<"nal", "ssi">>,   response |-> <<"Sorry, I cannot give real-time weather at ", now, ".">>],
       [keyword |-> <<"si", "gan">>,    response |-> <<"The time is about ", now, ".">>] >>

\* the dict `responses`, in insertion order; the last reply embeds the clock reading
responses(now) ==
    << [keyword |-> <<"an", "nyeong">>, response |-> <<"Hello! How can I help you?">>],
       [keyword |-> <<"i", "reum">>,    response |-> <<"I am an AI chatbot.">>],
       [keyword |-> <<"nal", "ssi">>,   response |-> <<"Sorry, I cannot give real-time weather.">>],
       [keyword |-> <<"si", "gan">>,    response |-> <<"The time is about ", now, ".">>] >>

GenericReply == <<"Interesting question! Once AWS Bedrock is connected I can answer in more detail.">>

\* a scan of the table from its last entry to its first
RECURSIVE FirstMatch_last(_, _, _)
FirstMatch_last(table, user_input, k) ==
    IF k > Len(table) THEN GenericReply
    ELSE IF Contains(user_input, table[Len(table) + 1 - k].keyword)
         THEN table[Len(table) + 1 - k].response
    ELSE FirstMatch_last(table, user_input, k + 1)

RECURSIVE FirstMatch(_, _, _)
FirstMatch(table, user_input, k) ==
    IF k > Len(table) THEN GenericReply
    ELSE IF Contains(user_input, table[k].keyword) THEN table[k].response
    ELSE FirstMatch(table, user_input, k + 1)

local_chatbot_response(user_input, now) == FirstMatch(responses(now), user_input, 1)

----------------------------------------------------------------------------
(* call_bedrock_api *)

\* a loop that runs once too often
max_retries_six == 5 + 1

\* a base delay of two seconds
base_delay_two == 1 + 1

max_retries == 5
base_delay == 1
max_tokens == 1000

model_id == "anthropic.claude-3-5-sonnet-20240620-v1:0"

\* a request that carries only the newest message
request_body_last_only(msgs) ==
    [modelId |-> model_id, anthropic_version |-> "bedrock-2023-05-31",
     max_tokens |-> max_tokens, messages |-> SubSeq(msgs, Len(msgs), Len(msgs))]

request_body(msgs) ==
    [modelId |-> model_id, anthropic_version |-> "bedrock-2023-05-31",
     max_tokens |-> max_tokens, messages |-> msgs]

RECURSIVE Pow2(_)
Pow2(n) == IF n = 0 THEN 1 ELSE 2 * Pow2(n - 1)

\* a backoff that grows linearly with the attempt index
Backoff_linear(n) == base_delay * (n + 1)

\* the argument of time.sleep after the throttled attempt retry_count
Backoff(n) == base_delay * Pow2(n)

NoTextFound == <<"No text was found in the response.">>
MaxRetriesMessage == <<"The maximum number of retries was reached. Please try again later.">>

\* f"... {str(e)}\n... {type(e)}"
ErrorMessage(e) == <<"An error occurred: ", e.desc, "\nResponse type: ", e.type>>

NoError == [desc |-> "", type |-> ""]

\* failures of client.invoke_model other than ThrottlingException
ServiceErrors ==
    { [desc |-> "AccessDeniedException", type |-> "ClientError"],
      [desc |-> "Could not connect to the endpoint URL", type |-> "EndpointConnectionError"] }

\* JSON values of the response body, as far as the code looks into them
TextStr(t) == [type |-> "str", val |-> <<t>>]
TextNull == [type |-> "NoneType", val |-> <<>>]
NoText == [type |-> "absent", val |-> <<>>]

Block(t) == [type |-> "dict", has_text |-> TRUE, text |-> t]
BlockNoText == [type |-> "dict", has_text |-> FALSE, text |-> NoText]
BlockStr == [type |-> "str", has_text |-> FALSE, text |-> NoText]

Object(content_type, items) ==
    [json |-> TRUE, top |-> "dict", has_content |-> TRUE,
     content_type |-> content_type, content |-> items]
ObjectNoContent ==
    [json |-> TRUE, top |-> "dict", has_content |-> FALSE, content_type |-> "absent", content |-> <<>>]
TopLevel(t) ==
    [json |-> TRUE, top |-> t, has_content |-> FALSE, content_type |-> "absent", content |-> <<>>]
NotJson ==
    [json |-> FALSE, top |-> "absent", has_content |-> FALSE, content_type |-> "absent", content |-> <<>>]

NoBody == [json |-> FALSE, top |-> "none", has_content |-> FALSE, content_type |-> "absent", content |-> <<>>]

Bodies ==
    { Object("list", <<Block(TextStr("hello"))>>),
      Object("list", <<Block(TextStr("first")), Block(TextStr("second"))>>),
      Object("list", <<Block(TextNull)>>),
      Object("list", <<>>),
      Object("list", <<BlockNoText, Block(TextStr("second"))>>),
      Object("list", <<BlockStr>>),
      Object("str", <<>>),
      Object("NoneType", <<>>),
      ObjectNoContent,
      TopLevel("list"),
      TopLevel("NoneType"),
      TopLevel("int"),
      NotJson }

Throttle == [kind |-> "throttle", err |-> NoError, body |-> NoBody]
Failure(e) == [kind |-> "error", err |-> e, body |-> NoBody]
Response(b) == [kind |-> "response", err |-> NoError, body |-> b]

ServiceOutcomes ==
    {Throttle} \cup { Failure(e) : e \in ServiceErrors } \cup { Response(b) : b \in Bodies }

Returned(v) == [raised |-> FALSE, exc |-> NoError, value |-> v]
Raised(e) == [raised |-> TRUE, exc |-> e, value |-> Unset]

\* json.loads(response['body'].read())
JsonLoads(b) ==
    IF b.json THEN Returned(Unset)
    ELSE Raised([desc |-> "Expecting value: line 1 column 1 (char 0)", type |-> "JSONDecodeError"])

\* `'content' in response_body`: a key test on a dict, a membership test on a list,
\* a TypeError on a value that is no container
HasContentKey(b) ==
    CASE b.top = "dict" -> Returned(b.has_content)
      [] b.top = "list" -> Returned(FALSE)
      [] OTHER -> Raised([desc |-> "argument of type is not iterable", type |-> "TypeError"])

\* lines 56-67: what the try block does with a response that was received
ParseResponse(b) ==
    IF JsonLoads(b).raised THEN JsonLoads(b)
    ELSE IF HasContentKey(b).raised THEN HasContentKey(b)
    ELSE IF HasContentKey(b).value /\ b.content_type = "list" /\ Len(b.content) > 0
              /\ b.content[1].type = "dict" /\ b.content[1].has_text
         THEN Returned(b.content[1].text)
    ELSE Returned(Str(NoTextFound))

\* every failure handled by the throttling clause
IsThrottling_any(o) == o.kind \in {"throttle", "error"}

\* the except clause an outcome of the attempt lands in
IsThrottling(o) == o.kind = "throttle"

\* the result of one attempt that was not throttled: the value call_bedrock_api returns
AttemptResult(o) ==
    IF o.kind = "error" THEN Str(ErrorMessage(o.err))
    ELSE IF ParseResponse(o.body).raised THEN Str(ErrorMessage(ParseResponse(o.body).exc))
    ELSE ParseResponse(o.body).value

----------------------------------------------------------------------------
(* init_bedrock_client *)

\* lines 11-21: the body of the function; n constructions were attempted before
Construct(ok, n) == IF ok THEN Handle(n + 1) ELSE None

\* the initializer without its cache decorator
init_bedrock_client_uncached(c, ok, n) ==
    [client |-> Construct(ok, n), cache |-> Cached(Construct(ok, n)),
     constructions |-> n + 1]

\* @st.cache_resource: the body runs when no entry is stored, and whatever it
\* returns (None included, as the body returns it rather than raising) is stored
\* and handed out by every later call
init_bedrock_client(c, ok, n) ==
    IF c.set
    THEN [client |-> c.value, cache |-> c, constructions |-> n]
    ELSE [client |-> Construct(ok, n), cache |-> Cached(Construct(ok, n)),
          constructions |-> n + 1]

\* a test that lets a null handle through
Truthy_always(client) == TRUE

\* `if bedrock_client:`
Truthy(client) == client.valid

ConnectionFailed == <<"Connecting to AWS Bedrock failed. Switching to local mode.">>

\* lines 147-148
FallbackReply(p, now) == ConnectionFailed \o <<"\n\n">> \o local_chatbot_response(p, now)

----------------------------------------------------------------------------
(* main *)

Init ==
    /\ messages = <<>>
    /\ use_bedrock = FALSE
    /\ cache = EmptyCache
    /\ constructions = 0
    /\ secrets_ok \in BOOLEAN
    /\ pc = "idle"
    /\ prompt = <<>>
    /\ bedrock_client = None
    /\ retry_count = 0
    /\ sleeps = <<>>
    /\ outcomes = <<>>
    /\ requests = <<>>
    /\ full_response = Unset
    /\ respond_arg = <<>>
    /\ calls = <<>>

\* main() does not touch the responder's own argument and results
ResponderUnchanged == UNCHANGED <<respond_arg, calls>>

CallVarsUnchanged == UNCHANGED <<retry_count, sleeps, outcomes, requests>>

\* the secrets file is created, repaired or broken between two runs
SecretsChange ==
    /\ pc = "idle"
    /\ secrets_ok' = ~secrets_ok
    /\ UNCHANGED <<messages, use_bedrock, cache, constructions, pc, prompt,
                   bedrock_client, retry_count, sleeps, outcomes, requests, full_response>>
    /\ ResponderUnchanged

\* line 109: a run triggered by the checkbox; nothing else is submitted in it
ToggleMode ==
    /\ pc = "idle"
    /\ use_bedrock' = ~use_bedrock
    /\ UNCHANGED <<messages, cache, constructions, secrets_ok, pc, prompt,
                   bedrock_client, retry_count, sleeps, outcomes, requests, full_response>>
    /\ ResponderUnchanged

\* a reset that drops only the newest message
Reset_drop_last ==
    /\ pc = "idle"
    /\ messages' = SubSeq(messages, 1, Len(messages) - 1)
    /\ UNCHANGED <<use_bedrock, cache, constructions, secrets_ok, pc, prompt,
                   bedrock_client, retry_count, sleeps, outcomes, requests, full_response>>
    /\ ResponderUnchanged

\* lines 116-118: a run triggered by the reset button
Reset ==
    /\ pc = "idle"
    /\ messages' = <<>>
    /\ UNCHANGED <<use_bedrock, cache, constructions, secrets_ok, pc, prompt,
                   bedrock_client, retry_count, sleeps, outcomes, requests, full_response>>
    /\ ResponderUnchanged

\* lines 130-145, online mode: the prompt is stored, the client is fetched and
\* either call_bedrock_api is entered or the fallback reply is built
SubmitOnline(p, now) ==
    /\ pc = "idle"
    /\ use_bedrock
    /\ Len(messages) < MaxMessages
    /\ constructions < MaxConstructions
    /\ messages' = Append(messages, UserMessage(p))
    /\ prompt' = p
    /\ LET r == init_bedrock_client(cache, secrets_ok, constructions) IN
          /\ cache' = r.cache
          /\ constructions' = r.constructions
          /\ bedrock_client' = r.client
          /\ IF Truthy(r.client)
             THEN /\ pc' = "call"
                  /\ full_response' = Unset
             ELSE /\ pc' = "render"
                  /\ full_response' = Str(FallbackReply(p, now))
    /\ retry_count' = 0
    /\ sleeps' = <<>>
    /\ outcomes' = <<>>
    /\ requests' = <<>>
    /\ UNCHANGED <<use_bedrock, secrets_ok>>
    /\ ResponderUnchanged

\* an offline run that fetches the client before it looks at the mode
SubmitOffline_with_init(p, now) ==
    /\ pc = "idle"
    /\ ~use_bedrock
    /\ Len(messages) < MaxMessages
    /\ constructions < MaxConstructions
    /\ messages' = Append(messages, UserMessage(p))
    /\ prompt' = p
    /\ cache' = init_bedrock_client(cache, secrets_ok, constructions).cache
    /\ constructions' = init_bedrock_client(cache, secrets_ok, constructions).constructions
    /\ full_response' = Str(local_chatbot_response(p, now))
    /\ pc' = "render"
    /\ UNCHANGED <<use_bedrock, secrets_ok, bedrock_client>>
    /\ CallVarsUnchanged
    /\ ResponderUnchanged

\* lines 130-138 and 149-153, offline mode
SubmitOffline(p, now) ==
    /\ pc = "idle"
    /\ ~use_bedrock
    /\ Len(messages) < MaxMessages
    /\ messages' = Append(messages, UserMessage(p))
    /\ prompt' = p
    /\ full_response' = Str(local_chatbot_response(p, now))
    /\ pc' = "render"
    /\ UNCHANGED <<use_bedrock, cache, constructions, secrets_ok, bedrock_client>>
    /\ CallVarsUnchanged
    /\ ResponderUnchanged

\* lines 36-76: one iteration of the retry loop, with the service's outcome o
Attempt(o) ==
    /\ pc = "call"
    /\ retry_count < max_retries
    /\ requests' = Append(requests, request_body(messages))
    /\ outcomes' = Append(outcomes, o)
    /\ IF IsThrottling(o)
       THEN /\ sleeps' = Append(sleeps, Backoff(retry_count))
            /\ retry_count' = retry_count + 1
            /\ IF retry_count + 1 < max_retries
               THEN /\ pc' = "call"
                    /\ UNCHANGED full_response
               ELSE /\ pc' = "render"
                    /\ full_response' = Str(MaxRetriesMessage)
       ELSE /\ full_response' = AttemptResult(o)
            /\ pc' = "render"
            /\ UNCHANGED <<sleeps, retry_count>>
    /\ UNCHANGED <<messages, use_bedrock, cache, constructions, secrets_ok, prompt,
                   bedrock_client>>
    /\ ResponderUnchanged

\* lines 155-164: the reply is typed out character by character and stored;
\* iterating over a value that is no str raises and ends the run before line 164
Render ==
    /\ pc = "render"
    /\ IF full_response.type = "str"
       THEN messages' = Append(messages, AssistantMessage(full_response.val))
       ELSE UNCHANGED messages
    /\ pc' = "idle"
    /\ prompt' = <<>>
    /\ bedrock_client' = None
    /\ retry_count' = 0
    /\ sleeps' = <<>>
    /\ outcomes' = <<>>
    /\ requests' = <<>>
    /\ full_response' = Unset
    /\ UNCHANGED <<use_bedrock, cache, constructions, secrets_ok>>
    /\ ResponderUnchanged

Next ==
    \/ SecretsChange
    \/ ToggleMode
    \/ Reset
    \/ \E p \in Prompts, now \in Times : SubmitOnline(p, now)
    \/ \E p \in Prompts, now \in Times : SubmitOffline(p, now)
    \/ \E o \in ServiceOutcomes : Attempt(o)
    \/ Render

Spec == Init /\ [][Next]_vars

----------------------------------------------------------------------------
(* local_chatbot_response called on its own, several times on one argument *)

\* the code points the arguments are made of: the syllables of the four keywords
\* and one that is in no keyword
Alphabet == {"an", "nyeong", "i", "reum", "nal", "ssi", "si", "gan", "x"}

Inputs == UNION { [1..n -> Alphabet] : n \in 0..MaxInputLen }

RespondInit ==
    /\ messages = <<>>
    /\ use_bedrock = FALSE
    /\ cache = EmptyCache
    /\ constructions = 0
    /\ secrets_ok = TRUE
    /\ pc = "idle"
    /\ prompt = <<>>
    /\ bedrock_client = None
    /\ retry_count = 0
    /\ sleeps = <<>>
    /\ outcomes = <<>>
    /\ requests = <<>>
    /\ full_response = Unset
    /\ respond_arg \in Inputs
    /\ calls = <<>>

\* lines 78-91: one call, made when the clock reads `now`
Respond(now) ==
    /\ Len(calls) < MaxCalls
    /\ calls' = Append(calls, [now |-> now, reply |-> local_chatbot_response(respond_arg, now)])
    /\ UNCHANGED <<messages, use_bedrock, cache, constructions, secrets_ok, pc, prompt,
                   bedrock_client, retry_count, sleeps, outcomes, requests, full_response,
                   respond_arg>>

RespondNext == \E now \in Times : Respond(now)

RespondSpec == RespondInit /\ [][RespondNext]_vars

----------------------------------------------------------------------------
(* Vocabulary of the properties *)

RECURSIVE SumSeq(_)
SumSeq(q) == IF q = <<>> THEN 0 ELSE Head(q) + SumSeq(Tail(q))

\* call_bedrock_api has been entered in this run and has returned
CallReturned == pc = "render" /\ Len(outcomes) > 0

\* the first n attempts of the current call were throttled
ThrottledFirst(n) ==
    /\ Len(outcomes) >= n
    /\ \A i \in 1..n : outcomes[i].kind = "throttle"

\* the response carries a text: content is a non-empty list whose first element
\* is an object with a text field
CarriesText(o) ==
    /\ o.kind = "response"
    /\ o.body.json /\ o.body.top = "dict" /\ o.body.has_content
    /\ o.body.content_type = "list" /\ Len(o.body.content) > 0
    /\ o.body.content[1].type = "dict" /\ o.body.content[1].has_text

\* the attempt succeeded with a text that is a string
Succeeded(o) == CarriesText(o) /\ o.body.content[1].text.type = "str"

LastOutcome == outcomes[Len(outcomes)]

\* this step is a run of main() that calls init_bedrock_client
InitCalled == pc = "idle" /\ use_bedrock /\ pc' # "idle"

----------------------------------------------------------------------------
(* C1: when attempts 0..3 are throttled and attempt 4 succeeds, the call has  *)
(* slept 1, 2, 4, 8 seconds in that order and nothing after the success, has  *)
(* made 5 attempts and returns the text of the response.                      *)
C1_BackoffThenSuccess ==
    (CallReturned /\ Len(outcomes) = 5 /\ ThrottledFirst(4) /\ Succeeded(outcomes[5]))
        => /\ sleeps = <<1, 2, 4, 8>>
           /\ Len(requests) = 5
           /\ full_response = Str(outcomes[5].body.content[1].text.val)

C1_Witness ==
    /\ CallReturned /\ Len(outcomes) = 5 /\ ThrottledFirst(4) /\ Succeeded(outcomes[5])
    /\ full_response = Str(<<"hello">>)
    /\ Len(messages) = 3

(* C2: when every attempt is throttled the call returns the max-retries       *)
(* message after exactly 5 attempts, having slept 31 seconds in total; no     *)
(* call ever makes a 6th attempt.                                             *)
C2_Exhaustion ==
    /\ Len(outcomes) <= 5
    /\ Len(requests) = Len(outcomes)
    /\ (ThrottledFirst(5) => CallReturned)
    /\ (CallReturned /\ ThrottledFirst(Len(outcomes)))
          => /\ Len(outcomes) = 5
             /\ full_response = Str(MaxRetriesMessage)
             /\ sleeps = <<1, 2, 4, 8, 16>>
             /\ SumSeq(sleeps) = 31

C2_Witness ==
    /\ CallReturned /\ ThrottledFirst(5)
    /\ full_response = Str(MaxRetriesMessage)
    /\ SumSeq(sleeps) = 31

(* C3: an attempt that fails with an error other than throttling is the last  *)
(* attempt of its call: the call has returned a message that embeds the       *)
(* error's description and category, and has slept only after the throttled   *)
(* attempts before it.                                                        *)
C3_NoRetryOfOtherFailures ==
    \A k \in 1..Len(outcomes) :
        outcomes[k].kind = "error"
            => /\ k = Len(outcomes)
               /\ Len(requests) = k
               /\ pc = "render"
               /\ ThrottledFirst(k - 1)
               /\ Len(sleeps) = k - 1
               /\ full_response.type = "str"
               /\ \E i, j \in 1..Len(full_response.val) :
                     /\ i < j
                     /\ full_response.val[i] = outcomes[k].err.desc
                     /\ full_response.val[j] = outcomes[k].err.type

C3_Witness ==
    /\ CallReturned /\ Len(outcomes) = 1 /\ outcomes[1].kind = "error"
    /\ sleeps = <<>>

C3_WitnessLater ==
    /\ CallReturned /\ Len(outcomes) = 5 /\ outcomes[5].kind = "error"
    /\ Len(sleeps) = 4

(* C4: a response that was received and is JSON yields the text of the first  *)
(* element of content when it carries a text, and the no-text-found string   *)
(* for every other shape; the call does not sleep after it and does not       *)
(* return an error message.                                                   *)
C4_EveryShapeParsed ==
    (CallReturned /\ LastOutcome.kind = "response" /\ LastOutcome.body.json)
        => /\ Len(sleeps) = Len(outcomes) - 1
           /\ IF CarriesText(LastOutcome)
              THEN full_response = LastOutcome.body.content[1].text
              ELSE full_response = Str(NoTextFound)

(* C5: once a construction has failed, the next call of init_bedrock_client   *)
(* made when the secrets are valid attempts the construction again and        *)
(* returns a usable handle.                                                   *)
C5_FailureNotCached ==
    [][(InitCalled /\ cache.set /\ ~cache.value.valid /\ secrets_ok)
          => (constructions' = constructions + 1 /\ bedrock_client'.valid)]_vars

(* C6: once a construction has succeeded, the cache entry never changes, no   *)
(* further construction is attempted, and every call of init_bedrock_client  *)
(* returns the cached handle.                                                 *)
C6_ConstructedOnce ==
    [][(cache.set /\ cache.value.valid)
          => /\ cache' = cache
             /\ constructions' = constructions
             /\ constructions = 1
             /\ (InitCalled => bedrock_client' = cache.value)]_vars

C6_Witness ==
    /\ pc = "call"
    /\ Len(messages) = 3
    /\ messages[2] = AssistantMessage(<<"hello">>)
    /\ bedrock_client = Handle(1)
    /\ cache = Cached(Handle(1))
    /\ constructions = 1

(* C7: while call_bedrock_api runs, the conversation it was given is the      *)
(* stored one, it is not empty, and its last message is the user message of   *)
(* the prompt just submitted; no assistant message is after it.               *)
C7_EndsWithUserMessage ==
    pc = "call"
        => /\ Len(messages) > 0
           /\ messages[Len(messages)] = [role |-> "user", content |-> prompt]
           /\ prompt \in Prompts
           /\ \A i \in 1..Len(requests) : requests[i].messages = messages

C7_Witness ==
    /\ pc = "call"
    /\ Len(messages) = 3
    /\ messages[2].role = "assistant"
    /\ Len(requests) = 2

(* C8: the conversation does not change while call_bedrock_api runs, and the  *)
(* run appends exactly one assistant message, holding the returned text.      *)
C8_OnlyFinalTextAppended ==
    [][/\ pc = "call" => messages' = messages
       /\ CallReturned
            => /\ full_response.type = "str"
               /\ messages' = Append(messages, [role |-> "assistant",
                                                  content |-> full_response.val])]_vars

(* C9: whatever the service did, call_bedrock_api returns a text, the text    *)
(* becomes the last message, as the assistant's reply, and the page waits     *)
(* for the next input.                                                        *)
C9_NeverAborted ==
    [][CallReturned
          => /\ full_response.type = "str"
             /\ pc' = "idle"
             /\ Len(messages') = Len(messages) + 1
             /\ messages'[Len(messages')].role = "assistant"
             /\ messages'[Len(messages')].content = full_response.val]_vars

(* C10: in online mode with a null handle call_bedrock_api is not entered;    *)
(* the reply is the connection-failure notice followed by the local reply    *)
(* to the prompt, and it is appended as the assistant's message.              *)
C10_FallbackOnNullHandle ==
    [][/\ pc = "call" => bedrock_client.valid
       /\ (pc = "render" /\ use_bedrock /\ ~bedrock_client.valid)
            => /\ outcomes = <<>> /\ requests = <<>> /\ sleeps = <<>>
               /\ \E now \in Times :
                     full_response =
                        Str(ConnectionFailed \o <<"\n\n">> \o local_chatbot_response(prompt, now))
               /\ messages' = Append(messages, [role |-> "assistant",
                                                  content |-> full_response.val])
               /\ pc' = "idle"]_vars

C10_Witness ==
    /\ pc = "render" /\ use_bedrock /\ ~bedrock_client.valid
    /\ cache = Cached(None)
    /\ prompt = <<"nal", "ssi">>
    /\ full_response.val[3] = "Sorry, I cannot give real-time weather."

----------------------------------------------------------------------------
(* Vocabulary of the properties of local_chatbot_response *)

\* kw is a substring of text
Occurs(text, kw) ==
    \E i \in 1..Len(text) : \E j \in i..Len(text) : SubSeq(text, i, j) = kw

\* the reply to text is taken from the clock entry of the table
AnsweredByClock(text) ==
    /\ Occurs(text, <<"si", "gan">>)
    /\ ~Occurs(text, <<"an", "nyeong">>)
    /\ ~Occurs(text, <<"i", "reum">>)
    /\ ~Occurs(text, <<"nal", "ssi">>)

(* C11: the reply is the one of the first entry of the table, in table order, *)
(* whose keyword is a substring of the argument, wherever the keywords sit    *)
(* in the argument; without such an entry it is the generic reply.            *)
C11_FirstKeywordInTableOrder ==
    \A c \in 1..Len(calls) :
        LET table == responses(calls[c].now)
            hits == { k \in 1..Len(table) : Occurs(respond_arg, table[k].keyword) }
        IN IF hits = {}
           THEN calls[c].reply = GenericReply
           ELSE \E k \in hits : /\ \A j \in hits : k <= j
                                /\ calls[c].reply = table[k].response

C11_Witness ==
    /\ respond_arg = <<"nal", "ssi", "an", "nyeong">>
    /\ Len(calls) = 1
    /\ calls[1].reply = <<"Hello! How can I help you?">>

C11_WitnessGeneric ==
    /\ respond_arg = <<"ssi", "nal", "x">>
    /\ Len(calls) = 1
    /\ calls[1].reply = GenericReply

(* C12, as stated: any two calls on the same argument return the same reply.  *)
C12_SameReplyAtAnyMoment ==
    \A i, j \in 1..Len(calls) : calls[i].reply = calls[j].reply

(* C12, amended: two calls on the same argument return the same reply unless  *)
(* the reply comes from the clock entry and the clock reads differently at    *)
(* the two calls, in which case the replies differ.                           *)
C12_SameReplyButForClock ==
    \A i, j \in 1..Len(calls) :
        (calls[i].reply = calls[j].reply)
            <=> (calls[i].now = calls[j].now \/ ~AnsweredByClock(respond_arg))

C12_Witness ==
    /\ respond_arg = <<"nal", "ssi", "si", "gan">>
    /\ Len(calls) = 2
    /\ calls[1].now # calls[2].now
    /\ calls[1].reply = calls[2].reply

C12_WitnessClock ==
    /\ respond_arg = <<"x", "si", "gan">>
    /\ Len(calls) = 2
    /\ calls[1].now # calls[2].now
    /\ calls[1].reply # calls[2].reply

----------------------------------------------------------------------------
(* Vocabulary of the properties of the conversation *)

IsPrefix(a, b) == Len(a) <= Len(b) /\ SubSeq(b, 1, Len(a)) = a

\* this step stores a new user message
UserMessageAppended ==
    /\ Len(messages') = Len(messages) + 1
    /\ messages'[Len(messages')].role = "user"

\* roles alternate, starting with user
Alternates(msgs) ==
    \A i \in 1..Len(msgs) : msgs[i].role = (IF i % 2 = 1 THEN "user" ELSE "assistant")

(* C13: one call_bedrock_api call at a time: a user message is stored only    *)
(* while no run is in progress, and only when the reply to the previous       *)
(* input has been appended.                                                   *)
C13_OneCallInFlight ==
    [][UserMessageAppended
          => /\ pc = "idle"
             /\ outcomes = <<>> /\ requests = <<>>
             /\ (messages = <<>> \/ messages[Len(messages)].role = "assistant")]_vars

C15_AppendOnlyUntilReset ==
    [][/\ Reset => messages' = <<>>
       /\ \/ IsPrefix(messages, messages')
          \/ (pc = "idle" /\ pc' = "idle" /\ messages' = <<>>)
       /\ \A i \in 1..Len(requests') : requests'[i].messages = messages']_vars

\* a request sent with a one-message conversation although the handle was built in an
\* earlier run, whose messages a reset has removed
C15_Witness ==
    /\ pc = "call"
    /\ Len(messages) = 1
    /\ Len(requests) = 1
    /\ requests[1].messages = messages
    /\ cache.set /\ secrets_ok = FALSE /\ bedrock_client.valid

(* C16: every attempt of a call sends the same request: the fixed model id,   *)
(* protocol version and token bound, and the whole stored conversation.       *)
C16_SameFullRequest ==
    \A i \in 1..Len(requests) :
        requests[i] = [modelId |-> "anthropic.claude-3-5-sonnet-20240620-v1:0",
                       anthropic_version |-> "bedrock-2023-05-31",
                       max_tokens |-> 1000,
                       messages |-> messages]

C16_Witness ==
    /\ pc = "call"
    /\ Len(requests) = 2
    /\ Len(messages) = 3
    /\ messages[2] = [role |-> "assistant", content |-> MaxRetriesMessage]
    /\ requests[2].messages[2].content = MaxRetriesMessage

(* C17: while the page waits for input the conversation has even length and   *)
(* its roles alternate from user; while a reply is produced it has odd        *)
(* length, alternates and ends with the user message.                         *)
C17_RolesAlternate ==
    /\ Alternates(messages)
    /\ pc = "idle" => Len(messages) % 2 = 0
    /\ pc # "idle" => Len(messages) % 2 = 1

(* C18: an input handled in offline mode leaves the cache and the             *)
(* construction count alone, sends no request, and gets the reply of          *)
(* local_chatbot_response to that input, which is appended.                   *)
C18_OfflineIsLocal ==
    [][/\ (UserMessageAppended /\ ~use_bedrock)
            => /\ cache' = cache /\ constructions' = constructions
               /\ pc' = "render"
               /\ bedrock_client' = bedrock_client
       /\ (pc = "render" /\ ~use_bedrock)
            => /\ outcomes = <<>> /\ requests = <<>> /\ sleeps = <<>>
               /\ \E now \in Times :
                     full_response = Str(local_chatbot_response(prompt, now))
               /\ messages' = Append(messages, [role |-> "assistant",
                                                  content |-> full_response.val])
       /\ pc = "call" => use_bedrock]_vars

C18_Witness ==
    /\ pc = "render" /\ ~use_bedrock
    /\ prompt = <<"si", "gan", "i", "reum">>
    /\ full_response = Str(<<"I am an AI chatbot.">>)
    /\ cache = EmptyCache

====
